---- MODULE Spec2Model ----
(***************************************************************************)
(* Lofi-Converter: the Streamlit front end (src/main.py) and the effects   *)
(* chain (src/music.py).                                                   *)
(*                                                                         *)
(* Two specifications share this module.                                   *)
(*   Spec     the application: browser sessions running main(), the two    *)
(*            st.cache_data caches, the temporary files on disk.           *)
(*   SpecDsp  one call of slowedreverb() followed stage by stage on a      *)
(*            symbolic clip.                                               *)
(***************************************************************************)
EXTENDS Integers, Sequences, FiniteSets, Bags, TLC

VARIABLES
    \* ---- application (Spec) ----
    files,        \* the disk: path -> content, for the paths that exist
    valCache,     \* st.cache_data of validate_youtube_url: url -> result
    dlCache,      \* st.cache_data(ttl=300) of download_youtube_audio: url -> [value, age]
    nextId,       \* the next uuid4 (fresh on every call)
    runs,         \* script runs started so far
    faults,       \* failures of the environment so far (encoder, network, a stage, os.remove)
    pc,           \* per session: position in main()
    link,         \* per session: youtube_link
    dl,           \* per session: download_result
    fromCache,    \* per session: download_result was a cache hit
    outputFile,   \* per session: process_audio's return value
    lofiMp3,      \* per session: lofi_mp3 = msc_to_mp3_inf(output_file)
    outcome,      \* per session: how the last script run ended
    \* ---- effects chain (SpecDsp) ----
    dpc,          \* position in slowedreverb
    params,       \* the six effect parameters and the decoded input
    audio,        \* the local variable audio
    reverb,       \* the local variable reverb
    tapI,         \* the loop variable i
    stageIn,      \* audio as it was on entering the stage that ran last
    accIn,        \* audio as it was before the tap that ran last
    trace         \* the stages that ran, in order

appVars == <<files, valCache, dlCache, nextId, runs, faults, pc, link, dl,
             fromCache, outputFile, lofiMp3, outcome>>
dspVars == <<dpc, params, audio, reverb, tapI, stageIn, accIn, trace>>
vars == <<appVars, dspVars>>

(***************************************************************************)
(* Program constants                                                       *)
(***************************************************************************)
MAX_DURATION_SECONDS == 600
DownloadTtl == 300
ValidateMaxEntries == 5

(***************************************************************************)
(* Bounds of the model                                                     *)
(***************************************************************************)
MaxRuns == 2
MaxFaults == 1
TickSeconds == 300
MaxLen == 4

Sessions == {"s1", "s2"}

(***************************************************************************)
(* The outside world: what yt_dlp reports for each link, and what the      *)
(* media really is.  has_duration tells whether info_dict carries the key  *)
(* 'duration' with a number ("value"), with None ("none"), or not at all   *)
(* ("absent").  extract is "ok" or the kind of exception extract_info      *)
(* raises.  length is the true playing time, ext the container yt_dlp      *)
(* names in prepare_filename.                                              *)
(***************************************************************************)
Media ==
    [ ok      |-> [extract |-> "ok", is_live |-> FALSE, private |-> FALSE,
                   has_duration |-> "value", duration |-> 200, length |-> 200, ext |-> "webm"],
      long    |-> [extract |-> "ok", is_live |-> FALSE, private |-> FALSE,
                   has_duration |-> "value", duration |-> 601, length |-> 601, ext |-> "webm"],
      live    |-> [extract |-> "ok", is_live |-> TRUE, private |-> FALSE,
                   has_duration |-> "none", duration |-> 0, length |-> 900, ext |-> "webm"],
      private |-> [extract |-> "ok", is_live |-> FALSE, private |-> TRUE,
                   has_duration |-> "value", duration |-> 200, length |-> 200, ext |-> "m4a"],
      nodur   |-> [extract |-> "ok", is_live |-> FALSE, private |-> FALSE,
                   has_duration |-> "absent", duration |-> 0, length |-> 900, ext |-> "m4a"],
      opus    |-> [extract |-> "ok", is_live |-> FALSE, private |-> FALSE,
                   has_duration |-> "value", duration |-> 600, length |-> 600, ext |-> "opus"],
      gone    |-> [extract |-> "Video unavailable", is_live |-> FALSE, private |-> FALSE,
                   has_duration |-> "value", duration |-> 200, length |-> 200, ext |-> "webm"] ]

Urls == DOMAIN Media

(***************************************************************************)
(* Paths and file contents                                                 *)
(***************************************************************************)
\* os.path.join(TEMP_DIR, f"{unique_id}.%(ext)s") with the extension filled in
Path(id, sfx, ext) == [id |-> id, sfx |-> sfx, ext |-> ext]
NoPath == Path(0, "", "")

\* str.replace('.webm', '.wav').replace('.m4a', '.wav') on a path
ReplaceMediaExt(p) ==
    IF p.ext \in {"webm", "m4a"} THEN [p EXCEPT !.ext = "wav"] ELSE p

\* wav_file.replace('.wav', '.mp3')
Mp3Name(p) ==
    IF p.ext = "wav" THEN [p EXCEPT !.ext = "mp3"] ELSE p

\* os.path.splitext(audio_file)[0] + "_lofi.wav"
LofiName(p) == [p EXCEPT !.sfx = p.sfx \o "_lofi", !.ext = "wav"]

Exists(fs, p) == p \in DOMAIN fs
WriteFile(fs, p, c) == [q \in DOMAIN fs \cup {p} |-> IF q = p THEN c ELSE fs[q]]
RemoveFiles(fs, ps) == [q \in DOMAIN fs \ ps |-> fs[q]]

\* what a file holds: the media it came from, whether the effects chain has
\* been applied, and its encoding ("empty": created by open(..., 'wb+') and
\* never filled)
Content(src, fx, enc) == [src |-> src, fx |-> fx, enc |-> enc]
NoContent == Content("", "", "")
ContentAt(fs, p) == IF Exists(fs, p) THEN fs[p] ELSE NoContent

\* AudioSegment.from_wav(path) returns instead of raising
Decodes(fs, p) == Exists(fs, p) /\ fs[p].enc = "wav"

(***************************************************************************)
(* src/music.py: msc_to_mp3_inf                                            *)
(***************************************************************************)
\* msc_to_mp3_inf without its except block: a failed decode or encode escapes
msc_to_mp3_inf_unguarded(fs, wav_file, encOk) ==
    IF ~Decodes(fs, wav_file)
    THEN [files |-> fs, ret |-> NoPath, raised |-> TRUE]
    ELSE LET mp3_file == Mp3Name(wav_file)
             c == fs[wav_file]
         IN IF encOk
            THEN [files |-> WriteFile(fs, mp3_file, Content(c.src, c.fx, "mp3")),
                  ret |-> mp3_file, raised |-> FALSE]
            ELSE [files |-> WriteFile(fs, mp3_file, Content("", "", "empty")),
                  ret |-> NoPath, raised |-> TRUE]

\* The call on disk fs.  encOk: the MP3 encoder run by audio.export succeeds.
\* export opens its target with 'wb+' before it encodes, so a failed encode
\* leaves an empty file at mp3_file.  Returns the disk afterwards, the value
\* returned, and whether an exception escaped (none can: except Exception).
msc_to_mp3_inf(fs, wav_file, encOk) ==
    IF ~Decodes(fs, wav_file)
    THEN [files |-> fs, ret |-> wav_file, raised |-> FALSE]
    ELSE LET mp3_file == Mp3Name(wav_file)
             c == fs[wav_file]
         IN IF encOk
            THEN [files |-> WriteFile(fs, mp3_file, Content(c.src, c.fx, "mp3")),
                  ret |-> mp3_file, raised |-> FALSE]
            ELSE [files |-> WriteFile(fs, mp3_file, Content("", "", "empty")),
                  ret |-> wav_file, raised |-> FALSE]

(***************************************************************************)
(* src/music.py: slowedreverb, as the application sees it                  *)
(***************************************************************************)
\* the statements of the try block, in order
Stages == <<"decode", "stretch", "reverb", "gain", "low_pass_filter", "normalize", "export">>
StageSet == {Stages[k] : k \in 1..Len(Stages)}
FailPoints == StageSet \cup {"none"}

\* shutil.copy2(input_file, output_file) in the except block: raises when
\* input_file cannot be opened
copy2(fs, input_file, output_file) ==
    IF Exists(fs, input_file)
    THEN [files |-> WriteFile(fs, output_file, fs[input_file]), raised |-> FALSE]
    ELSE [files |-> fs, raised |-> TRUE]

\* failAt: the statement of the try block that raises ("none": none does).
\* from_wav raises by itself when the input is missing or is no WAV.
slowedreverb(fs, input_file, output_file, failAt) ==
    LET failed == failAt # "none" \/ ~Decodes(fs, input_file)
    IN IF ~failed
       THEN [files |-> WriteFile(fs, output_file,
                                 Content(fs[input_file].src, "lofi", "wav")),
             failed |-> FALSE, raised |-> FALSE]
       ELSE LET cp == copy2(fs, input_file, output_file)
            IN [files |-> cp.files, failed |-> TRUE, raised |-> cp.raised]

(***************************************************************************)
(* src/main.py: LofiConverter                                              *)
(***************************************************************************)
Rejected(msg, hasDur, d) ==
    [valid |-> FALSE, error |-> msg, has_duration |-> hasDur, duration |-> d]

\* the body of validate_youtube_url
validate_youtube_url(youtube_link) ==
    LET info_dict == Media[youtube_link]
        duration == IF info_dict.has_duration = "absent" THEN 0 ELSE info_dict.duration
    IN IF info_dict.extract = "Video unavailable"
       THEN Rejected("Video is not available", FALSE, 0)
       ELSE IF info_dict.extract # "ok"
       THEN Rejected("YouTube error", FALSE, 0)
       ELSE IF info_dict.is_live
       THEN Rejected("Live streams are not supported", FALSE, 0)
       ELSE IF info_dict.private
       THEN Rejected("Private videos are not accessible", FALSE, 0)
       ELSE IF info_dict.has_duration = "none"
       \* None > MAX_DURATION_SECONDS raises TypeError: except Exception
       THEN Rejected("Failed to validate YouTube URL", FALSE, 0)
       ELSE IF duration > MAX_DURATION_SECONDS
       THEN Rejected("exceeds 10-minute limit", TRUE, duration)
       ELSE [valid |-> TRUE, error |-> "", has_duration |-> TRUE, duration |-> duration]

\* @st.cache_data(max_entries=5) around it: the cache is a sequence of
\* [url, value], least recently used first
CacheIndex(cache, u) ==
    IF \E k \in 1..Len(cache) : cache[k].url = u
    THEN CHOOSE k \in 1..Len(cache) : cache[k].url = u
    ELSE 0
DropAt(cache, k) == [j \in 1..(Len(cache) - 1) |-> IF j < k THEN cache[j] ELSE cache[j + 1]]
validate_cached(cache, u) ==
    LET k == CacheIndex(cache, u)
    IN IF k > 0
       THEN [cache |-> Append(DropAt(cache, k), cache[k]), value |-> cache[k].value]
       ELSE LET v == validate_youtube_url(u)
                grown == Append(cache, [url |-> u, value |-> v])
            IN [cache |-> IF Len(grown) > ValidateMaxEntries THEN Tail(grown) ELSE grown,
                value |-> v]

NoDownload == [ok |-> FALSE, audio_file |-> NoPath, mp3_file |-> NoPath,
               title |-> "", duration |-> 0]

\* the body of download_youtube_audio.  id: the uuid4 drawn; dlOk: yt_dlp's
\* extract_info(download=True) returns instead of raising; encOk: as above.
\* FFmpegExtractAudio leaves <id>.wav whatever container was downloaded.
download_youtube_audio(fs, cache, id, youtube_link, dlOk, encOk) ==
    LET v == validate_cached(cache, youtube_link)
    IN IF ~v.value.valid
       THEN [files |-> fs, cache |-> v.cache, value |-> NoDownload,
             usedId |-> FALSE]
       ELSE IF ~dlOk
       THEN [files |-> fs, cache |-> v.cache, value |-> NoDownload,
             usedId |-> TRUE]
       ELSE LET fs1 == WriteFile(fs, Path(id, "", "wav"),
                                 Content(youtube_link, "dry", "wav"))
                audio_file == ReplaceMediaExt(Path(id, "", Media[youtube_link].ext))
                m == msc_to_mp3_inf(fs1, audio_file, encOk)
            IN [files |-> m.files, cache |-> v.cache,
                value |-> IF m.raised  \* caught at main.py 152
                          THEN NoDownload
                          ELSE [ok |-> TRUE, audio_file |-> audio_file, mp3_file |-> m.ret,
                                title |-> youtube_link, duration |-> v.value.duration],
                usedId |-> TRUE]

\* process_audio: None (ok = FALSE) when slowedreverb raised
process_audio(fs, audio_file, failAt) ==
    LET out == LofiName(audio_file)
        r == slowedreverb(fs, audio_file, out, failAt)
    IN [files |-> r.files, ok |-> ~r.raised,
        ret |-> IF r.raised THEN NoPath ELSE out]

\* the finally block of temp_files_manager; stuck: the files os.remove fails on
temp_files_manager(fs, targets, stuck) ==
    RemoveFiles(fs, {p \in targets : Exists(fs, p)} \ stuck)

(***************************************************************************)
(* src/music.py: the effects chain on a symbolic clip                      *)
(*                                                                         *)
(* A clip is held at the resolution of pydub's len(), slicing and          *)
(* silent(): one element per millisecond.  The sample at a millisecond is  *)
(* a bag of terms <<k, g>>: "sample k of the decoded input, g decibels up".*)
(* Overlay adds bags, a gain change shifts every g, silence is the empty   *)
(* bag: the chain is followed exactly wherever it is linear (saturation    *)
(* of the sample format is left out).  low_pass_filter and normalize are   *)
(* kept as marks on the clip, in fx.                                       *)
(* The six parameters are in hundredths (dry_level 20 is 0.2), delay in    *)
(* milliseconds.                                                           *)
(***************************************************************************)
NUM_TAPS == 3
TAP_STEP_DB == 20
LOW_PASS_HZ == 8000
DRY_FLOOR == 1

NoClip == [ms |-> <<>>, frame_rate |-> 0, fx |-> <<>>]
NoParams == [room_size |-> 0, damping |-> 0, wet_level |-> 0, dry_level |-> 0,
             delay |-> 0, slow_factor |-> 0, input |-> NoClip]

\* AudioSegment.from_wav of a file of n milliseconds
Decoded(n, rate) == [ms |-> [k \in 1..n |-> SetToBag({<<k, 0>>})],
                     frame_rate |-> rate, fx |-> <<>>]

LenMs(clip) == Len(clip.ms)

\* AudioSegment.silent(duration=n), at the rate of the clip it is joined to
Silent(n, rate) == [ms |-> [k \in 1..n |-> EmptyBag], frame_rate |-> rate, fx |-> <<>>]

\* a + b on two segments: b appended to a
Concat(a, b) == [b EXCEPT !.ms = a.ms \o b.ms]

\* every term of a sample g decibels up
GainBag(b, g) ==
    [t \in {<<x[1], x[2] + g>> : x \in DOMAIN b} |-> b[<<t[1], t[2] - g>>]]

\* clip + g (apply_gain)
ApplyGain(clip, g) == [clip EXCEPT !.ms = [k \in 1..Len(clip.ms) |-> GainBag(clip.ms[k], g)]]

\* clip[:n]
Slice(clip, n) ==
    [clip EXCEPT !.ms = SubSeq(clip.ms, 1, IF n < Len(clip.ms) THEN n ELSE Len(clip.ms))]

\* a.overlay(b, position=0): the length of a; what of b lies past it is dropped
Overlay(a, b) ==
    [a EXCEPT !.ms = [k \in 1..Len(a.ms) |->
                        IF k <= Len(b.ms) THEN a.ms[k] (+) b.ms[k] ELSE a.ms[k]]]

\* music.py 56-65: the data played at frame_rate * (1 - slow_factor), then
\* resampled to frame_rate (each output millisecond takes the input
\* millisecond it falls in)
\* int(audio.frame_rate * (1 - slow_factor)): the float product falls just
\* short of the whole number at the pairs of FloatShort
FloatShort == {<<44100, 30>>, <<22050, 30>>, <<8000, 7>>}
NewFrameRate(frame_rate, slow_factor) ==
    (frame_rate * (100 - slow_factor)) \div 100
        - (IF <<frame_rate, slow_factor>> \in FloatShort THEN 1 ELSE 0)

TimeStretch(clip, slow_factor) ==
    IF slow_factor > 0
    THEN LET new_frame_rate == NewFrameRate(clip.frame_rate, slow_factor)
             n == (Len(clip.ms) * clip.frame_rate) \div new_frame_rate
         IN [clip EXCEPT !.ms = [k \in 1..n |->
                                   clip.ms[((k - 1) * new_frame_rate) \div clip.frame_rate + 1]]]
    ELSE clip

\* the guard of music.py 68 with wet_level >= 0 for wet_level > 0
ReverbOnAtZeroWet(wet_level, delay) == wet_level >= 0 /\ delay > 0

\* music.py 68: the reverb block runs
ReverbOn(wet_level, delay) == wet_level > 0 /\ delay > 0

\* music.py 75, 77: decay = room_size * (1 - damping) ** (i + 1) > 0.01.
\* At the <<room_size, damping, i>> of FloatAbove the exact product is 0.01
\* and the float product lies just above it.
Pow(b, e) == IF e = 1 THEN b ELSE IF e = 2 THEN b * b ELSE b * b * b
FloatAbove == {<<20, 95, 0>>, <<25, 96, 0>>, <<50, 98, 0>>, <<100, 99, 0>>}
Audible(room_size, damping, i) ==
    \/ room_size * Pow(100 - damping, i + 1) > Pow(100, i + 1)
    \/ <<room_size, damping, i>> \in FloatAbove

\* music.py 79: AudioSegment.silent(duration=delay_ms) + reverb - (20 * (i + 1))
Delayed(src, delay, i) ==
    ApplyGain(Concat(Silent(delay * (i + 1), src.frame_rate), src),
              -(TAP_STEP_DB * (i + 1)))

\* the mix with the operands of overlay exchanged: delayed.overlay(audio)
MixOntoDelayed(acc, delayed) == Overlay(delayed, acc)

\* music.py 82-85
Mix(acc, delayed) ==
    IF LenMs(delayed) > LenMs(acc)
    THEN Overlay(acc, Slice(delayed, LenMs(acc)))
    ELSE Overlay(acc, delayed)

\* one turn of the loop with delayed built from the accumulated audio
TapCompounding(acc, src, p, i) ==
    IF Audible(p.room_size, p.damping, i)
    THEN Mix(acc, Delayed(acc, p.delay, i))
    ELSE acc

\* music.py 74-85: one turn of the loop, on the accumulated audio and on reverb
Tap(acc, src, p, i) ==
    IF Audible(p.room_size, p.damping, i)
    THEN Mix(acc, Delayed(src, p.delay, i))
    ELSE acc

\* int(20 * np.log10(x)) at x = d / 100, d = 1..100 (int truncates towards 0)
TruncDbTable ==
    <<-40, -33, -30, -27, -26, -24, -23, -21, -20, -20,
       -19, -18, -17, -17, -16, -15, -15, -14, -14, -13,
       -13, -13, -12, -12, -12, -11, -11, -11, -10, -10,
       -10, -9, -9, -9, -9, -8, -8, -8, -8, -7,
       -7, -7, -7, -7, -6, -6, -6, -6, -6, -6,
       -5, -5, -5, -5, -5, -5, -4, -4, -4, -4,
       -4, -4, -4, -3, -3, -3, -3, -3, -3, -3,
       -2, -2, -2, -2, -2, -2, -2, -2, -2, -1,
       -1, -1, -1, -1, -1, -1, -1, -1, -1, 0,
       0, 0, 0, 0, 0, 0, 0, 0, 0, 0>>
TruncDb(d) == TruncDbTable[d]

\* music.py 88-89: audio - int(20 * np.log10(max(dry_level, 0.01)))
GainChange(dry_level) ==
    IF dry_level < 100
    THEN -(TruncDb(IF dry_level > DRY_FLOOR THEN dry_level ELSE DRY_FLOOR))
    ELSE 0
GainStage(clip, dry_level) ==
    IF dry_level < 100 THEN ApplyGain(clip, GainChange(dry_level)) ELSE clip

\* music.py 93 and 96: audio.low_pass_filter(8000), audio.normalize()
LowPass(clip) == [clip EXCEPT !.fx = Append(@, <<"low_pass_filter", LOW_PASS_HZ>>)]
Normalize(clip) == [clip EXCEPT !.fx = Append(@, <<"normalize", 0>>)]

\* the order with normalize ahead of low_pass_filter
AfterStageNormalizeFirst(stage) ==
    CASE stage = "decode" -> "stretch"
      [] stage = "stretch" -> "reverb"
      [] stage = "reverb" -> "gain"
      [] stage = "gain" -> "normalize"
      [] stage = "normalize" -> "low_pass_filter"
      [] stage = "low_pass_filter" -> "export"
      [] stage = "export" -> "done"

\* the order of the statements of the try block: what runs after a stage
AfterStage(stage) ==
    CASE stage = "decode" -> "stretch"
      [] stage = "stretch" -> "reverb"
      [] stage = "reverb" -> "gain"
      [] stage = "gain" -> "low_pass_filter"
      [] stage = "low_pass_filter" -> "normalize"
      [] stage = "normalize" -> "export"
      [] stage = "export" -> "done"

(***************************************************************************)
(* The inputs the effects chain is followed on                             *)
(***************************************************************************)
RoomSizes == {2, 10, 20, 75}
Dampings == {10, 50, 70, 95, 100}
WetLevels == {0, 8}
DryLevels == {0, 1, 20, 95, 100}
Delays == {0, 1, 2}
SlowFactors == {0, 8, 30}
FrameRates == {44100}

DspIdle ==
    /\ dpc = "off"
    /\ params = NoParams
    /\ audio = NoClip
    /\ reverb = NoClip
    /\ tapI = 0
    /\ stageIn = NoClip
    /\ accIn = NoClip
    /\ trace = <<>>

(***************************************************************************)
(* The application: main() run by each browser session.  Streamlit runs    *)
(* every session's script in a thread of its own and reruns it on input;   *)
(* the st.cache_data caches are shared by all sessions.                    *)
(***************************************************************************)
Init ==
    /\ files = << >>
    /\ valCache = << >>
    /\ dlCache = << >>
    /\ nextId = 1
    /\ runs = 0
    /\ faults = 0
    /\ pc = [s \in Sessions |-> "idle"]
    /\ link = [s \in Sessions |-> ""]
    /\ dl = [s \in Sessions |-> NoDownload]
    /\ fromCache = [s \in Sessions |-> FALSE]
    /\ outputFile = [s \in Sessions |-> NoPath]
    /\ lofiMp3 = [s \in Sessions |-> NoPath]
    /\ outcome = [s \in Sessions |-> "none"]
    /\ DspIdle

\* the script run ends at s
EndRun(s, how) ==
    /\ pc' = [pc EXCEPT ![s] = "idle"]
    /\ outcome' = [outcome EXCEPT ![s] = how]

\* main.py 364-370: a link is entered (or the script is rerun with one)
Submit(s, u) ==
    /\ pc[s] = "idle"
    /\ runs < MaxRuns
    /\ runs' = runs + 1
    /\ pc' = [pc EXCEPT ![s] = "download"]
    /\ link' = [link EXCEPT ![s] = u]
    /\ dl' = [dl EXCEPT ![s] = NoDownload]
    /\ fromCache' = [fromCache EXCEPT ![s] = FALSE]
    /\ outputFile' = [outputFile EXCEPT ![s] = NoPath]
    /\ lofiMp3' = [lofiMp3 EXCEPT ![s] = NoPath]
    /\ outcome' = [outcome EXCEPT ![s] = "running"]
    /\ UNCHANGED <<files, valCache, dlCache, nextId, faults, dspVars>>

\* the environment may fail while the budget lasts: the outcomes open to a
\* step that can fail, and the budget after the step
Outcomes == IF faults < MaxFaults THEN BOOLEAN ELSE {TRUE}
Spend(ok) == faults' = IF ok THEN faults ELSE faults + 1

\* st.cache_data(ttl=300): the entry for u is still alive
CacheAlive(u) == u \in DOMAIN dlCache /\ dlCache[u].age < DownloadTtl

AfterDownload(s, value) ==
    /\ dl' = [dl EXCEPT ![s] = value]
    /\ IF value.ok
       THEN pc' = [pc EXCEPT ![s] = "preview"] /\ UNCHANGED outcome
       ELSE EndRun(s, "no_download")

\* main.py 377, answered by the cache
DownloadHit(s) ==
    /\ pc[s] = "download"
    /\ CacheAlive(link[s])
    /\ AfterDownload(s, dlCache[link[s]].value)
    /\ fromCache' = [fromCache EXCEPT ![s] = TRUE]
    /\ UNCHANGED <<files, valCache, dlCache, nextId, runs, faults, link, outputFile,
                   lofiMp3, dspVars>>

\* main.py 377, the cached function runs (under the cache's lock) and its
\* return value, None included, is stored
DownloadMiss(s) ==
    /\ pc[s] = "download"
    /\ ~CacheAlive(link[s])
    /\ \E dlOk \in Outcomes, encOk \in Outcomes :
         LET r == download_youtube_audio(files, valCache, nextId, link[s], dlOk, encOk)
         IN /\ dlOk \/ encOk
            /\ Spend(dlOk /\ encOk)
            /\ files' = r.files
            /\ valCache' = r.cache
            /\ nextId' = IF r.usedId THEN nextId + 1 ELSE nextId
            /\ dlCache' = [u \in DOMAIN dlCache \cup {link[s]} |->
                             IF u = link[s] THEN [value |-> r.value, age |-> 0]
                             ELSE dlCache[u]]
            /\ AfterDownload(s, r.value)
    /\ UNCHANGED <<runs, link, fromCache, outputFile, lofiMp3, dspVars>>

\* main.py 402: st.audio(mp3_base_file) opens the file; a missing file raises
\* into main's except block
Preview(s) ==
    /\ pc[s] = "preview"
    /\ IF Exists(files, dl[s].mp3_file)
       THEN pc' = [pc EXCEPT ![s] = "process"] /\ UNCHANGED outcome
       ELSE EndRun(s, "exception")
    /\ UNCHANGED <<files, valCache, dlCache, nextId, runs, faults, link, dl, fromCache,
                   outputFile, lofiMp3, dspVars>>

\* main.py 409: output_file = converter.process_audio(audio_file, settings)
Process(s) ==
    /\ pc[s] = "process"
    /\ \E failAt \in FailPoints :
         LET r == process_audio(files, dl[s].audio_file, failAt)
         IN /\ (failAt = "none") \in Outcomes
            /\ Spend(failAt = "none")
            /\ files' = r.files
            /\ outputFile' = [outputFile EXCEPT ![s] = r.ret]
            /\ IF r.ok
               THEN pc' = [pc EXCEPT ![s] = "convert"] /\ UNCHANGED outcome
               ELSE EndRun(s, "no_output")
    /\ UNCHANGED <<valCache, dlCache, nextId, runs, link, dl, fromCache,
                   lofiMp3, dspVars>>

\* main.py 414-415: lofi_mp3 = msc_to_mp3_inf(output_file); st.audio(lofi_mp3)
Convert(s) ==
    /\ pc[s] = "convert"
    /\ \E encOk \in Outcomes :
         LET r == msc_to_mp3_inf(files, outputFile[s], encOk)
         IN /\ Spend(encOk)
            /\ files' = r.files
            /\ lofiMp3' = IF r.raised THEN lofiMp3 ELSE [lofiMp3 EXCEPT ![s] = r.ret]
            /\ IF ~r.raised /\ Exists(r.files, r.ret)
               THEN pc' = [pc EXCEPT ![s] = "offer"] /\ UNCHANGED outcome
               ELSE EndRun(s, "exception")
    /\ UNCHANGED <<valCache, dlCache, nextId, runs, link, dl, fromCache,
                   outputFile, dspVars>>

\* main.py 421-431: open(lofi_mp3, 'rb') for the download button
Offer(s) ==
    /\ pc[s] = "offer"
    /\ IF Exists(files, lofiMp3[s])
       THEN pc' = [pc EXCEPT ![s] = "cleanup"] /\ UNCHANGED outcome
       ELSE EndRun(s, "exception")
    /\ UNCHANGED <<files, valCache, dlCache, nextId, runs, faults, link, dl, fromCache,
                   outputFile, lofiMp3, dspVars>>

\* the four arguments of temp_files_manager at main.py 434
TempFiles(s) == {dl[s].audio_file, outputFile[s], dl[s].mp3_file, lofiMp3[s]} \ {NoPath}

\* main.py 434-435; os.remove may fail on the first file handed over
Cleanup(s) ==
    /\ pc[s] = "cleanup"
    /\ \E rmOk \in Outcomes :
         /\ Spend(rmOk)
         /\ files' = temp_files_manager(files, TempFiles(s),
                                        IF rmOk THEN {} ELSE {dl[s].audio_file})
    /\ EndRun(s, "converted")
    /\ UNCHANGED <<valCache, dlCache, nextId, runs, link, dl, fromCache,
                   outputFile, lofiMp3, dspVars>>

\* time passes: every entry of the download cache grows older, and the
\* entries past their ttl are dropped
Tick ==
    /\ dlCache # << >>
    /\ dlCache' = [u \in {x \in DOMAIN dlCache : dlCache[x].age + TickSeconds < DownloadTtl} |->
                     [dlCache[u] EXCEPT !.age = @ + TickSeconds]]
    /\ UNCHANGED <<files, valCache, nextId, runs, faults, pc, link, dl, fromCache,
                   outputFile, lofiMp3, outcome, dspVars>>

Next ==
    \/ \E s \in Sessions, u \in Urls : Submit(s, u)
    \/ \E s \in Sessions : DownloadHit(s)
    \/ \E s \in Sessions : DownloadMiss(s)
    \/ \E s \in Sessions : Preview(s)
    \/ \E s \in Sessions : Process(s)
    \/ \E s \in Sessions : Convert(s)
    \/ \E s \in Sessions : Offer(s)
    \/ \E s \in Sessions : Cleanup(s)
    \/ Tick

Spec == Init /\ [][Next]_vars

(***************************************************************************)
(* One call of slowedreverb, statement by statement                        *)
(***************************************************************************)
AppIdle ==
    /\ files = << >>
    /\ valCache = << >>
    /\ dlCache = << >>
    /\ nextId = 1
    /\ runs = 0
    /\ faults = 0
    /\ pc = [s \in Sessions |-> "idle"]
    /\ link = [s \in Sessions |-> ""]
    /\ dl = [s \in Sessions |-> NoDownload]
    /\ fromCache = [s \in Sessions |-> FALSE]
    /\ outputFile = [s \in Sessions |-> NoPath]
    /\ lofiMp3 = [s \in Sessions |-> NoPath]
    /\ outcome = [s \in Sessions |-> "none"]

InitDsp ==
    /\ AppIdle
    /\ dpc = "decode"
    /\ params \in [room_size : RoomSizes, damping : Dampings, wet_level : WetLevels,
                   dry_level : DryLevels, delay : Delays, slow_factor : SlowFactors,
                   input : {Decoded(n, r) : n \in 1..MaxLen, r \in FrameRates}]
    /\ audio = NoClip
    /\ reverb = NoClip
    /\ tapI = 0
    /\ stageIn = NoClip
    /\ accIn = NoClip
    /\ trace = <<>>

\* the stage at dpc runs (or is skipped) and hands audio on
Step(stage, ran, result) ==
    /\ dpc = stage
    /\ stageIn' = audio
    /\ audio' = result
    /\ trace' = IF ran THEN Append(trace, stage) ELSE trace
    /\ dpc' = AfterStage(stage)

\* music.py 53
DspDecode ==
    /\ Step("decode", TRUE, params.input)
    /\ UNCHANGED <<params, reverb, tapI, accIn, appVars>>

\* music.py 56-65
DspStretch ==
    /\ Step("stretch", params.slow_factor > 0, TimeStretch(audio, params.slow_factor))
    /\ UNCHANGED <<params, reverb, tapI, accIn, appVars>>

\* music.py 68-70: the block is entered (reverb = audio) or skipped
DspReverb ==
    /\ dpc = "reverb"
    /\ stageIn' = audio
    /\ IF ReverbOn(params.wet_level, params.delay)
       THEN /\ reverb' = audio
            /\ tapI' = 0
            /\ trace' = Append(trace, "reverb")
            /\ dpc' = "tap"
       ELSE /\ dpc' = AfterStage("reverb")
            /\ UNCHANGED <<reverb, tapI, trace>>
    /\ UNCHANGED <<params, audio, accIn, appVars>>

\* music.py 73-85: one turn of for i in range(3)
DspTap ==
    /\ dpc = "tap"
    /\ accIn' = audio
    /\ audio' = Tap(audio, reverb, params, tapI)
    /\ tapI' = tapI + 1
    /\ dpc' = IF tapI + 1 < NUM_TAPS THEN "tap" ELSE AfterStage("reverb")
    /\ UNCHANGED <<params, reverb, stageIn, trace, appVars>>

\* music.py 88-89
DspGain ==
    /\ Step("gain", params.dry_level < 100, GainStage(audio, params.dry_level))
    /\ UNCHANGED <<params, reverb, tapI, accIn, appVars>>

\* music.py 93
DspLowPass ==
    /\ Step("low_pass_filter", TRUE, LowPass(audio))
    /\ UNCHANGED <<params, reverb, tapI, accIn, appVars>>

\* music.py 96
DspNormalize ==
    /\ Step("normalize", TRUE, Normalize(audio))
    /\ UNCHANGED <<params, reverb, tapI, accIn, appVars>>

\* music.py 99-101
DspExport ==
    /\ Step("export", TRUE, audio)
    /\ UNCHANGED <<params, reverb, tapI, accIn, appVars>>

NextDsp ==
    \/ DspDecode
    \/ DspStretch
    \/ DspReverb
    \/ DspTap
    \/ DspGain
    \/ DspLowPass
    \/ DspNormalize
    \/ DspExport

SpecDsp == InitDsp /\ [][NextDsp]_vars

(***************************************************************************)
(* Properties                                                              *)
(***************************************************************************)
InFlight(s) == pc[s] \in {"preview", "process", "convert", "offer", "cleanup"}

\* the four working files of the request of session s
WorkingFiles(s) ==
    {dl[s].audio_file, dl[s].mp3_file, LofiName(dl[s].audio_file),
     Mp3Name(LofiName(dl[s].audio_file))}

\* C1: slowedreverb never raises to its caller: whenever process_audio calls
\* it, it returns output_file, and output_file then holds the processed audio
\* or, after any failure, a byte-for-byte copy of input_file.
C1_SlowedReverbNeverRaises ==
    [][\A s \in Sessions :
         Process(s) =>
           LET input_file == dl[s].audio_file
               out == LofiName(input_file)
           IN /\ outputFile'[s] = out
              /\ Exists(files', out)
              /\ \/ files'[out] = Content(ContentAt(files, input_file).src, "lofi", "wav")
                 \/ files'[out] = ContentAt(files, input_file)]_vars

\* C2: no two requests in flight share a working file (downloaded WAV,
\* preview MP3, processed WAV, processed MP3), two requests for the same URL
\* included.
C2_NoSharedWorkingFiles ==
    \A s1 \in Sessions, s2 \in Sessions :
        (s1 # s2 /\ InFlight(s1) /\ InFlight(s2))
            => WorkingFiles(s1) \cap WorkingFiles(s2) = {}

\* C3: the pipeline only sees media that passed validation: no request is in
\* flight for a link validate_youtube_url rejects, every link whose download
\* was started is neither live nor private nor longer than 600 seconds, and
\* no media longer than 600 seconds reaches slowedreverb.
C3_OnlyValidatedShortMedia ==
    /\ \A s \in Sessions : InFlight(s) => validate_youtube_url(link[s]).valid
    /\ \A u \in DOMAIN dlCache :
          dlCache[u].value.ok =>
              /\ ~Media[u].is_live
              /\ ~Media[u].private
              /\ Media[u].length <= MAX_DURATION_SECONDS
    /\ \A s \in Sessions :
          pc[s] \in {"process", "convert", "offer", "cleanup"}
              => Media[link[s]].length <= MAX_DURATION_SECONDS

\* C4: for dry_level < 1.0 the gain stage changes the level by
\* 20*log10(max(dry_level, 0.01)) dB, a negative amount (whole decibels here:
\* between the value rounded down and the value rounded up), never raising it;
\* for dry_level <= 0.01 the change is exactly -40 dB.
C4_GainStageAttenuates ==
    (dpc = "low_pass_filter" /\ params.dry_level < 100) =>
        LET d == IF params.dry_level > DRY_FLOOR THEN params.dry_level ELSE DRY_FLOOR
        IN \E g \in (TruncDb(d) - 1)..TruncDb(d) :
              /\ audio = ApplyGain(stageIn, g)
              /\ g <= 0
              /\ params.dry_level <= DRY_FLOOR => g = -40

\* C5: the stages that run, run in the order time-stretch, delay/reverb, gain
\* staging, low-pass filter (8000 Hz), normalization, encode; a finished run
\* has filtered, then normalized, then exported.
StageIndex(stage) == CHOOSE k \in 1..Len(Stages) : Stages[k] = stage
C5_StagesInFixedOrder ==
    /\ \A a \in 1..Len(trace), b \in 1..Len(trace) :
          a < b => StageIndex(trace[a]) < StageIndex(trace[b])
    /\ dpc = "done" =>
          /\ audio.fx = <<(<<"low_pass_filter", 8000>>), (<<"normalize", 0>>)>>
          /\ Len(trace) >= 4
          /\ SubSeq(trace, Len(trace) - 2, Len(trace))
                = <<"low_pass_filter", "normalize", "export">>
C5_Witness == dpc = "done" /\ trace = Stages

\* C6: the delay/reverb stage never changes the clip length: after every tap
\* and at the end of the stage the accumulated clip is as long as the clip
\* that entered the stage.
C6_ReverbKeepsLength ==
    dpc \in {"tap", "gain"} => LenMs(audio) = LenMs(stageIn)
C6_Witness ==
    /\ dpc = "gain"
    /\ tapI = NUM_TAPS
    /\ audio # stageIn
    /\ LenMs(audio) = LenMs(stageIn)

\* C7: each stage is the identity at its neutral parameter: time-stretch at
\* slow_factor = 0, delay/reverb at wet_level <= 0 or delay <= 0, gain staging
\* at dry_level >= 1.0.
C7_NeutralParametersAreIdentity ==
    /\ (dpc = "reverb" /\ params.slow_factor = 0) => audio = stageIn
    /\ (dpc = "gain" /\ (params.wet_level <= 0 \/ params.delay <= 0)) => audio = stageIn
    /\ (dpc = "low_pass_filter" /\ params.dry_level >= 100) => audio = stageIn
C7_Witness ==
    /\ dpc = "low_pass_filter"
    /\ params.slow_factor = 0
    /\ params.wet_level = 0
    /\ params.delay > 0
    /\ params.room_size = 75
    /\ params.dry_level = 100
    /\ audio = params.input

\* C8: msc_to_mp3_inf never raises: at both places it is called it returns
\* either the path of a newly written MP3 or, when decoding or encoding
\* failed, the path it was given, whose file is then as it was before.
Mp3Returned(before, wav_file, fs, ret) ==
    \/ /\ ret = Mp3Name(wav_file)
       /\ ret # wav_file
       /\ Exists(fs, ret)
       /\ fs[ret] = Content(before.src, before.fx, "mp3")
       /\ ContentAt(fs, wav_file) = before
    \/ /\ ret = wav_file
       /\ ContentAt(fs, wav_file) = before
C8_Mp3ConversionNeverRaises ==
    [][\A s \in Sessions :
         /\ Convert(s) =>
              Mp3Returned(ContentAt(files, outputFile[s]), outputFile[s],
                          files', lofiMp3'[s])
         /\ (DownloadMiss(s) /\ validate_youtube_url(link[s]).valid
                /\ Exists(files', Path(nextId, "", "wav")))
              => /\ dl'[s].ok
                 /\ Mp3Returned(IF dl'[s].audio_file = Path(nextId, "", "wav")
                                THEN Content(link[s], "dry", "wav")
                                ELSE ContentAt(files, dl'[s].audio_file),
                                dl'[s].audio_file, files', dl'[s].mp3_file)]_vars
C8_Witness ==
    \E s \in Sessions :
        /\ pc[s] = "offer"
        /\ lofiMp3[s] = outputFile[s]
        /\ Decodes(files, outputFile[s])

\* what tap i adds at millisecond k when it is built from src
TapTerm(src, delay, i, k) ==
    IF k - delay * (i + 1) >= 1
    THEN GainBag(src.ms[k - delay * (i + 1)], -(20 * (i + 1)))
    ELSE EmptyBag
TapBuiltFrom(src) ==
    LET i == tapI - 1
    IN (dpc \in {"tap", "gain"} /\ tapI - 1 \in {1, 2}
           /\ Audible(params.room_size, params.damping, i)) =>
         /\ LenMs(audio) = LenMs(accIn)
         /\ \A k \in 1..LenMs(audio) :
               audio.ms[k] = accIn.ms[k] (+) TapTerm(src, params.delay, i, k)

\* C9 (as written): for i in {1, 2} the tap is built from the accumulated
\* signal left by the previous tap: delay*(i+1) ms of silence before it,
\* 20*(i+1) dB down.
C9_TapsCompound == TapBuiltFrom(accIn)

\* C9 (amended): for i in {1, 2}, as for i = 0, the tap is built from the
\* signal as it entered the stage (reverb, never reassigned in the loop):
\* delay*(i+1) ms of silence before it, 20*(i+1) dB down; the accumulated
\* signal is only what the tap is overlaid onto.
C9_TapsBuiltFromEntrySignal ==
    /\ dpc = "tap" => reverb = stageIn
    /\ TapBuiltFrom(reverb)
C9_Witness ==
    /\ dpc \in {"tap", "gain"}
    /\ tapI = 2
    /\ Audible(params.room_size, params.damping, 1)
    /\ accIn # reverb
    /\ audio # accIn

\* C10: a request answered from the download cache fares as one answered by
\* a fresh download: the preview file it names exists when the player opens
\* it and the audio file exists when the pipeline reads it (for media whose
\* fresh download names existing files).
C10_CachedDownloadFilesExist ==
    \A s \in Sessions :
        (fromCache[s] /\ dl[s].ok /\ Media[link[s]].ext \in {"webm", "m4a"}) =>
            /\ pc[s] = "preview" => Exists(files, dl[s].mp3_file)
            /\ pc[s] = "process" => Exists(files, dl[s].audio_file)

\* the decay of tap i in exact arithmetic (parameters in hundredths):
\* room_size * (1 - damping)^(i+1) > 0.01
DecayAboveThreshold(p, i) ==
    p.room_size * Pow(100 - p.damping, i + 1) > Pow(100, i + 1)

\* C11: when the reverb block runs, tap i is overlaid if and only if
\* room_size * (1 - damping)^(i+1) > 0.01, strictly (a decay of exactly 0.01
\* leaves the tap out); an overlaid tap is the entry signal delayed and
\* 20*(i+1) dB down whatever the decay, and when all three taps are left out
\* the stage hands the clip on unchanged.
C11_TapIncludedIffDecayAboveThreshold ==
    /\ (dpc \in {"tap", "gain"} /\ tapI >= 1) =>
          LET i == tapI - 1
          IN /\ LenMs(audio) = LenMs(accIn)
             /\ \A k \in 1..LenMs(audio) :
                   audio.ms[k] =
                       accIn.ms[k] (+) (IF DecayAboveThreshold(params, i)
                                        THEN TapTerm(reverb, params.delay, i, k)
                                        ELSE EmptyBag)
    /\ (dpc = "gain" /\ tapI = NUM_TAPS
           /\ \A i \in 0..(NUM_TAPS - 1) : ~DecayAboveThreshold(params, i))
          => audio = stageIn

\* the files on disk fs that carry the unique_id of the download of session s
FilesOfRequest(fs, s) == {p \in DOMAIN fs : p.id = dl[s].audio_file.id}

\* C12: when main finishes handling a request whose download succeeded
\* (conversion done, process_audio returned None, or an exception was raised
\* after the download), no temporary file of the request is left on disk,
\* but for a file os.remove failed on.
C12_TempFilesDeletedOnEveryPath ==
    [][\A s \in Sessions :
         (InFlight(s) /\ pc'[s] = "idle") =>
            \A p \in FilesOfRequest(files', s) :
                /\ pc[s] = "cleanup"
                /\ faults' = faults + 1
                /\ p = dl[s].audio_file]_vars

====
